---- MODULE Spec2Model ----
(***************************************************************************)
(* Comment-preserving insertion engine of the gdocs skill                  *)
(* (document-skills/gdocs/scripts/content_inserter.py and the parts of     *)
(* gdocs_editor.py and comment_manager.py it calls).                       *)
(*                                                                         *)
(* The remote document is a flat, absolutely indexed buffer: position i    *)
(* of the sequence `doc` is document index i (the first paragraph starts   *)
(* at index 1).  Every character carries the named style of its paragraph  *)
(* (ps) and its text style (ts); paragraphs end with a newline, and a text *)
(* run is a maximal stretch of one text style inside a paragraph.  The     *)
(* JSON tree the client reads (body.content, paragraph.elements, textRun)  *)
(* is derived from the buffer by BodyContent.                              *)
(***************************************************************************)
EXTENDS Integers, Sequences, FiniteSets, TLC

VARIABLES
    doc,        \* document store: the flat buffer, Seq of [ch, ps, ts, tb]
    bodyKind,   \* "content": the resource has body.content; "missing": it has not
    tab,        \* the tab the document URL names, if any, and that tab's body: [id, body]
    comments,   \* annotation store: Seq of [id, anchor, resolved, body]
    pc,         \* position of the client call in progress
    req,        \* arguments of the call in progress
    ip,         \* outcome of the planner: the InsertionPoint, or the exception raised
    plan,       \* requests of the batch built by the call
    batches,    \* request lists submitted to documents().batchUpdate by the call
    storeReply, \* the store's answer to the batch: "none", "ok" or its error message
    result,     \* value returned by the call
    snap,       \* the stores when the call started: [doc, comments]
    commentReplies, \* the annotation store's answers to the creates of the call
    otherEdits, \* edits of other actors the store applied since the call's read
    calls       \* the calls that returned before the one in progress: Seq of [req, ip, snap]

vars == <<doc, bodyKind, tab, comments, pc, req, ip, plan, batches, storeReply, result, snap,
          commentReplies, otherEdits, calls>>

----------------------------------------------------------------------------
(* Bounds of the model *)

MaxParas == 2       \* paragraphs of an initial document
MaxBuf == 3         \* characters of the buffer of a Case B run
MaxNew == 2         \* characters of the new text of a Case B run
LongSide == 41      \* characters either side of the 'a' of the long paragraph
MaxContent == 4     \* characters of a content string handed to the formatter

----------------------------------------------------------------------------
(* Strings are sequences of characters; an optional string is <<>> (None)  *)
(* or <<s>>.                                                               *)

NL == "\n"
Char == {"a", "b", "A", NL}

None == <<>>
Some(s) == <<s>>
\* Python truthiness of an Optional[str]: neither None nor ''
Truthy(o) == o # <<>> /\ o[1] # <<>>

\* str.lower() on one character and on a string
LowerChar(c) == IF c = "A" THEN "a" ELSE c
Lower(s) == [i \in 1..Len(s) |-> LowerChar(s[i])]

\* t occurs in s at the 0-based offset k
OccursAt(s, t, k) == k + Len(t) <= Len(s) /\ SubSeq(s, k + 1, k + Len(t)) = t
\* Python `t in s`
Contains(s, t) == \E k \in 0..Len(s) : OccursAt(s, t, k)
\* Python s.index(t), defined when t in s: the first offset
IndexOf(s, t) == CHOOSE k \in 0..Len(s) :
                    OccursAt(s, t, k) /\ \A j \in 0..(k - 1) : ~OccursAt(s, t, j)

StartsWith(s, t) == Len(t) <= Len(s) /\ SubSeq(s, 1, Len(t)) = t
EndsWith(s, t) == Len(t) <= Len(s) /\ SubSeq(s, Len(s) - Len(t) + 1, Len(s)) = t

RECURSIVE RStripNL(_)
\* str.rstrip('\n')
RStripNL(s) == IF s # <<>> /\ s[Len(s)] = NL THEN RStripNL(SubSeq(s, 1, Len(s) - 1)) ELSE s

\* all strings over S of length at most n
RECURSIVE StringsUpTo(_, _)
StringsUpTo(S, n) ==
    IF n = 0 THEN {<<>>}
    ELSE LET shorter == StringsUpTo(S, n - 1)
         IN shorter \cup {Append(s, c) : s \in {x \in shorter : Len(x) = n - 1}, c \in S}

----------------------------------------------------------------------------
(* The document store's buffer and the edits of a batch.                   *)

Cell(c, p, t) == [ch |-> c, ps |-> p, ts |-> t, tb |-> FALSE]
\* a character of a paragraph inside a table cell
TableChar(c, p, t) == [ch |-> c, ps |-> p, ts |-> t, tb |-> TRUE]
\* the indices a table takes before the content of its cell: the start of
\* the table, of its row and of its cell
Markers == {"<table>", "<tableRow>", "<tableCell>"}
IsMarker(c) == c.ch \in Markers
Text(d) == [i \in 1..Len(d) |-> d[i].ch]

\* attributes a character inserted at index takes: the paragraph style of the
\* paragraph it lands in, the text style of the character before it in that
\* paragraph (of the character after it at a paragraph start)
InheritAt(d, index) ==
    LET here == IF index <= Len(d) THEN d[index] ELSE d[Len(d)]
        prev == IF index > 1 /\ d[index - 1].ch # NL THEN d[index - 1] ELSE here
    IN [ps |-> here.ps, ts |-> prev.ts, tb |-> here.tb]

\* insertText: the text goes before the character at index; everything at or
\* after index moves right by Len(s)
ApplyInsertText(d, index, s) ==
    LET a == InheritAt(d, index)
    IN SubSeq(d, 1, index - 1)
         \o [i \in 1..Len(s) |-> [ch |-> s[i], ps |-> a.ps, ts |-> a.ts, tb |-> a.tb]]
         \o SubSeq(d, index, Len(d))

\* deleteContentRange [startIndex, endIndex)
ApplyDeleteRange(d, startIndex, endIndex) ==
    SubSeq(d, 1, startIndex - 1) \o SubSeq(d, endIndex, Len(d))

\* first and last index of the paragraph holding index i
ParaFirst(d, i) ==
    LET ends == {j \in 1..(i - 1) : d[j].ch = NL}
    IN IF ends = {} THEN 1 ELSE 1 + CHOOSE j \in ends : \A k \in ends : k <= j
ParaLast(d, i) ==
    LET ends == {e \in i..Len(d) : d[e].ch = NL}
    IN IF ends = {} THEN Len(d) ELSE CHOOSE e \in ends : \A k \in ends : e <= k

\* updateParagraphStyle: every paragraph overlapping [startIndex, endIndex)
\* takes the named style
ApplyParagraphStyle(d, startIndex, endIndex, style) ==
    [i \in 1..Len(d) |->
        IF ParaFirst(d, i) < endIndex /\ ParaLast(d, i) >= startIndex
        THEN [d[i] EXCEPT !.ps = style]
        ELSE d[i]]

\* updateTextStyle: the characters of [startIndex, endIndex) take the text style
ApplyTextStyle(d, startIndex, endIndex, style) ==
    [i \in 1..Len(d) |->
        IF startIndex <= i /\ i < endIndex THEN [d[i] EXCEPT !.ts = style] ELSE d[i]]

\* the requests of a batch
\* tabId is the optional tab of an insertText location; the style requests of
\* the client carry none
InsertTextReq(index, tab_id, s) ==
    [op |-> "insertText", index |-> index, tabId |-> tab_id, text |-> s]
DeleteRangeReq(s, e) == [op |-> "deleteContentRange", startIndex |-> s, endIndex |-> e]
ParagraphStyleReq(s, e, style) ==
    [op |-> "updateParagraphStyle", startIndex |-> s, endIndex |-> e, style |-> style]
TextStyleReq(s, e, style) ==
    [op |-> "updateTextStyle", startIndex |-> s, endIndex |-> e, style |-> style]

\* whether the store accepts a request on buffer d
ValidRequest(d, r) ==
    CASE r.op = "insertText" -> /\ 1 <= r.index /\ r.index <= Len(d) /\ r.text # <<>>
                                /\ ~IsMarker(d[r.index])
      [] r.op = "deleteContentRange" ->
            1 <= r.startIndex /\ r.startIndex < r.endIndex /\ r.endIndex <= Len(d) + 1
      [] OTHER -> 1 <= r.startIndex /\ r.startIndex < r.endIndex /\ r.endIndex <= Len(d) + 1

ApplyRequest(d, r) ==
    CASE r.op = "insertText" -> ApplyInsertText(d, r.index, r.text)
      [] r.op = "deleteContentRange" -> ApplyDeleteRange(d, r.startIndex, r.endIndex)
      [] r.op = "updateParagraphStyle" ->
            ApplyParagraphStyle(d, r.startIndex, r.endIndex, r.style)
      [] OTHER -> ApplyTextStyle(d, r.startIndex, r.endIndex, r.style)

\* a batch applies its requests in order, each on the result of the ones before
RECURSIVE ApplyBatch(_, _)
ApplyBatch(d, rs) ==
    IF rs = <<>> THEN d ELSE ApplyBatch(ApplyRequest(d, Head(rs)), Tail(rs))

\* the store applies a batch all or nothing: every request must be valid on the
\* buffer left by the requests before it
RECURSIVE BatchValid(_, _)
BatchValid(d, rs) ==
    IF rs = <<>> THEN TRUE
    ELSE ValidRequest(d, Head(rs)) /\ BatchValid(ApplyRequest(d, Head(rs)), Tail(rs))

\* the tab a request is addressed to: the tabId of an insertText location; the
\* ranges of the style requests carry none
AddressedTab(r) == IF r.op = "insertText" THEN r.tabId ELSE None

\* the body a request acts on, of a document whose bodies are b.first (the
\* first tab) and b.named: a request that names no tab acts on the first tab
TargetBody(r) == IF AddressedTab(r) # None THEN "named" ELSE "first"

RECURSIVE ApplyBatchInTabs(_, _)
ApplyBatchInTabs(b, rs) ==
    IF rs = <<>> THEN b
    ELSE LET r == Head(rs)
         IN ApplyBatchInTabs([b EXCEPT ![TargetBody(r)] = ApplyRequest(@, r)], Tail(rs))

RECURSIVE BatchValidInTabs(_, _)
BatchValidInTabs(b, rs) ==
    IF rs = <<>> THEN TRUE
    ELSE LET r == Head(rs)
         IN /\ ValidRequest(b[TargetBody(r)], r)
            /\ BatchValidInTabs([b EXCEPT ![TargetBody(r)] = ApplyRequest(@, r)], Tail(rs))

----------------------------------------------------------------------------
(* The document resource the client reads: documents().get                 *)

\* last index of the text run that starts at s in the paragraph ending at e
RunLast(d, s, e) ==
    LET lasts == {r \in s..e : r = e \/ d[r + 1].ts # d[s].ts}
    IN CHOOSE r \in lasts : \A k \in lasts : r <= k

RECURSIVE RunsFrom(_, _, _)
\* paragraph.elements: the text runs of the paragraph [s, e]
RunsFrom(d, s, e) ==
    IF s > e THEN <<>>
    ELSE LET r == RunLast(d, s, e)
         IN <<[startIndex |-> s, endIndex |-> r + 1,
               content |-> Text(SubSeq(d, s, r))]>> \o RunsFrom(d, r + 1, e)

\* a paragraph element: the paragraph [s, e]
ParagraphElement(d, s, e) ==
    [kind |-> "paragraph", startIndex |-> s, endIndex |-> e + 1,
     style |-> d[s].ps, elements |-> RunsFrom(d, s, e), cells |-> <<>>]

RECURSIVE CellParas(_, _, _)
\* tableCell.content: the paragraphs of [s, e]
CellParas(d, s, e) ==
    IF s > e THEN <<>>
    ELSE LET l == ParaLast(d, s)
         IN <<ParagraphElement(d, s, l)>> \o CellParas(d, l + 1, e)

\* last index of the table that starts at s
TableLast(d, s) ==
    LET after == {j \in s..Len(d) : ~d[j].tb}
    IN IF after = {} THEN Len(d) ELSE (CHOOSE j \in after : \A k \in after : j <= k) - 1

\* a table element of one row and one cell: cells is the content of each
\* tableCell of its tableRows, in order
TableElement(d, s, e) ==
    [kind |-> "table", startIndex |-> s, endIndex |-> e + 1, style |-> "",
     elements |-> <<>>, cells |-> << CellParas(d, s + Cardinality(Markers), e) >>]

RECURSIVE ParasFrom(_, _)
\* the structural elements from index s on: one element per paragraph of the
\* body and per table
ParasFrom(d, s) ==
    IF s > Len(d) THEN <<>>
    ELSE IF d[s].tb
      THEN LET e == TableLast(d, s)
           IN <<TableElement(d, s, e)>> \o ParasFrom(d, e + 1)
    ELSE LET e == ParaLast(d, s)
         IN <<ParagraphElement(d, s, e)>> \o ParasFrom(d, e + 1)

\* doc.get('body', {}).get('content', []): the elements, [] when the key is absent
BodyContent(d, bk) == IF bk = "missing" THEN <<>> ELSE ParasFrom(d, 1)

\* doc.get('body', {}).get('content', [{}])[-1].get('endIndex', 1):
\* an absent key gives the default [{}], whose element has no endIndex;
\* an empty list has no last element and [-1] raises IndexError
DocEndRaises(d, bk) == bk # "missing" /\ ParasFrom(d, 1) = <<>>
DocEnd(d, bk) ==
    IF bk = "missing" THEN 1
    ELSE LET content == ParasFrom(d, 1) IN content[Len(content)].endIndex

RECURSIVE ConcatRuns(_)
ConcatRuns(runs) == IF runs = <<>> THEN <<>> ELSE Head(runs).content \o ConcatRuns(Tail(runs))

\* GoogleDocsEditor._extract_paragraph_text
ExtractParagraphText(para) == RStripNL(ConcatRuns(para.elements))

\* named_style.startswith('HEADING_')
IsHeading(style) == style \in {"HEADING_1", "HEADING_2"}

RECURSIVE SectionsScan(_, _, _)
\* the section loop of analyze_document; current is the open section, if any
SectionsScan(elems, sections, current) ==
    IF elems = <<>> THEN sections \o current
    ELSE LET e == Head(elems)
         IN IF e.kind = "paragraph" /\ IsHeading(e.style)
              THEN SectionsScan(Tail(elems), sections \o current,
                       <<[heading |-> ExtractParagraphText(e),
                          start_index |-> e.startIndex, end_index |-> e.endIndex]>>)
            ELSE IF e.kind = "paragraph" /\ current # <<>>
              THEN SectionsScan(Tail(elems), sections,
                       <<[current[1] EXCEPT !.end_index = e.endIndex]>>)
            ELSE SectionsScan(Tail(elems), sections, current)

\* DocumentAnalysis.sections
AnalyzeSections(d, bk) == SectionsScan(BodyContent(d, bk), <<>>, <<>>)

----------------------------------------------------------------------------
(* Annotation resolver                                                     *)

\* CommentManager.get_comments: resolved comments are skipped unless asked for
GetComments(cms, include_resolved) ==
    SelectSeq(cms, LAMBDA c : include_resolved \/ ~c.resolved)

RECURSIVE FindInRuns(_, _)
\* the text-run loop of _find_text_range: the first run holding the target
FindInRuns(runs, target) ==
    IF runs = <<>> THEN None
    ELSE IF Contains(Head(runs).content, target)
      THEN LET actual_start == Head(runs).startIndex + IndexOf(Head(runs).content, target)
           IN Some([start |-> actual_start, end |-> actual_start + Len(target)])
    ELSE FindInRuns(Tail(runs), target)

RECURSIVE FindTextRange(_, _)
RECURSIVE FindInCells(_, _)
\* the tableRows / tableCells loops of _find_text_range: the first cell whose
\* content holds the target
FindInCells(cells, target) ==
    IF cells = <<>> THEN None
    ELSE LET inCell == FindTextRange(Head(cells), target)
         IN IF inCell # None THEN inCell ELSE FindInCells(Tail(cells), target)

\* ContentInserter._find_text_range
FindTextRange(content_elements, target) ==
    IF content_elements = <<>> THEN None
    ELSE LET e == Head(content_elements)
             found == IF e.kind = "paragraph" THEN FindInRuns(e.elements, target)
                      ELSE IF e.kind = "table" THEN FindInCells(e.cells, target)
                      ELSE None
         IN IF found # None THEN found
            ELSE FindTextRange(Tail(content_elements), target)

RECURSIVE RangesOf(_, _)
RangesOf(content_elements, cms) ==
    IF cms = <<>> THEN <<>>
    ELSE LET c == Head(cms)
             found == IF Truthy(c.anchor)
                      THEN FindTextRange(content_elements, c.anchor[1]) ELSE None
         IN (IF found # None
             THEN <<[start_index |-> found[1].start, end_index |-> found[1].end,
                     comment_id |-> c.id, anchor_text |-> c.anchor[1]]>>
             ELSE <<>>) \o RangesOf(content_elements, Tail(cms))

\* ContentInserter.find_commented_ranges
FindCommentedRanges(d, bk, cms) == RangesOf(BodyContent(d, bk), GetComments(cms, FALSE))

\* CommentedRange.contains
RangeContains(cr, index) == cr.start_index <= index /\ index <= cr.end_index

----------------------------------------------------------------------------
(* Insertion point planner                                                 *)

RECURSIVE FindSectionBoundaries(_, _)
\* ContentInserter._find_section_boundaries: the first section whose heading
\* is not empty and contains the name, case-insensitively
FindSectionBoundaries(sections, section_name) ==
    IF sections = <<>> THEN None
    ELSE LET section == Head(sections)
         IN IF section.heading # <<>>
               /\ Contains(Lower(section.heading), Lower(section_name))
            THEN Some([start |-> section.start_index, end |-> section.end_index])
            ELSE FindSectionBoundaries(Tail(sections), section_name)

\* an InsertionPoint; exc names the exception the planner raised instead, if any
InsertionPoint(index, section_name, safe, affected, strategy, reason) ==
    [exc |-> "none", index |-> index, section_name |-> section_name, safe |-> safe,
     affected_comments |-> affected, strategy |-> strategy, reason |-> reason]
NoInsertionPoint == InsertionPoint(0, None, TRUE, <<>>, "", "")
PlannerRaised(e) == [NoInsertionPoint EXCEPT !.exc = e]

\* faulty variant: the document end itself, not one before it
DocumentEndPointAtEnd(d, bk, reason) ==
    IF DocEndRaises(d, bk) THEN PlannerRaised("IndexError")
    ELSE InsertionPoint(DocEnd(d, bk), None, TRUE, <<>>, "new_section", reason)

\* the two document-end returns of calculate_insertion_point
DocumentEndPoint(d, bk, reason) ==
    IF DocEndRaises(d, bk) THEN PlannerRaised("IndexError")
    ELSE InsertionPoint(DocEnd(d, bk) - 1, None, TRUE, <<>>, "new_section", reason)

RECURSIVE AffectedBy(_, _)
\* [cr.comment_id for cr in commented_ranges if cr.contains(insertion_idx)]
AffectedBy(commented_ranges, insertion_idx) ==
    IF commented_ranges = <<>> THEN <<>>
    ELSE (IF RangeContains(Head(commented_ranges), insertion_idx)
          THEN <<Head(commented_ranges).comment_id>> ELSE <<>>)
         \o AffectedBy(Tail(commented_ranges), insertion_idx)

\* ContentInserter.calculate_insertion_point
CalculateInsertionPoint(d, bk, cms, section_name, strategy) ==
    LET sections == AnalyzeSections(d, bk)
        commented_ranges == FindCommentedRanges(d, bk, cms)
        section_bounds == IF Truthy(section_name)
                          THEN FindSectionBoundaries(sections, section_name[1])
                          ELSE None
        at_document_end == DocumentEndPoint(d, bk, "Inserting at document end")
    IN IF Truthy(section_name)
       THEN IF section_bounds # None
            THEN IF strategy = "safe"
                 THEN LET insertion_idx == section_bounds[1].end - 1
                          affected == AffectedBy(commented_ranges, insertion_idx)
                      IN InsertionPoint(insertion_idx, section_name, affected = <<>>,
                                        affected, "after", "End of section")
                 ELSE at_document_end
            ELSE DocumentEndPoint(d, bk, "Section not found, inserting at document end")
       ELSE at_document_end

----------------------------------------------------------------------------
(* Mutation sequencer                                                      *)

\* ContentInserter._format_content_for_insertion
FormatContentForInsertion(content) ==
    LET c1 == IF ~StartsWith(content, <<NL>>) THEN <<NL, NL>> \o content ELSE content
    IN IF ~EndsWith(c1, <<NL>>) THEN c1 \o <<NL, NL>> ELSE c1

\* f" (from: {attribution_text})"
AttributionFull(attribution_text) ==
    <<" ", "(", "f", "r", "o", "m", ":", " ">> \o attribution_text \o <<")">>

\* faulty variant: the attribution is placed at the original offset, not after the
\* content inserted by the first request
SimpleInsertRequestsUnshifted(index, content, tab_id, add_inline_attribution, attribution_text) ==
    LET requests == << InsertTextReq(index, tab_id, content),
                       ParagraphStyleReq(index, index + Len(content), "NORMAL_TEXT") >>
    IN IF add_inline_attribution /\ Truthy(attribution_text)
       THEN LET attribution_full == AttributionFull(attribution_text[1])
            IN requests \o << InsertTextReq(index, tab_id, attribution_full),
                              TextStyleReq(index, index + Len(attribution_full),
                                           "ITALIC_PURPLE") >>
       ELSE requests

\* faulty variant: the text style is applied from the offset of the content
SimpleInsertRequestsStyledAtOffset(index, content, tab_id, add_inline_attribution, attribution_text) ==
    LET requests == << InsertTextReq(index, tab_id, content),
                       ParagraphStyleReq(index, index + Len(content), "NORMAL_TEXT") >>
    IN IF add_inline_attribution /\ Truthy(attribution_text)
       THEN LET attribution_full == AttributionFull(attribution_text[1])
            IN requests \o << InsertTextReq(index + Len(content), tab_id, attribution_full),
                              TextStyleReq(index, index + Len(attribution_full),
                                           "ITALIC_PURPLE") >>
       ELSE requests

\* faulty variant: the insert overwrites the character it is put in front of
SimpleInsertRequestsOverwriting(index, content, tab_id, add_inline_attribution, attribution_text) ==
    << InsertTextReq(index, tab_id, content),
       ParagraphStyleReq(index, index + Len(content), "NORMAL_TEXT"),
       DeleteRangeReq(index + Len(content) - 1, index + Len(content)) >>

\* the requests ContentInserter._simple_insert puts in its batch (Case A)
SimpleInsertRequests(index, content, tab_id, add_inline_attribution, attribution_text) ==
    LET requests == << InsertTextReq(index, tab_id, content),
                       ParagraphStyleReq(index, index + Len(content), "NORMAL_TEXT") >>
    IN IF add_inline_attribution /\ Truthy(attribution_text)
       THEN LET attribution_full == AttributionFull(attribution_text[1])
                attribution_index == index + Len(content)
            IN requests \o << InsertTextReq(attribution_index, tab_id, attribution_full),
                              TextStyleReq(attribution_index,
                                           attribution_index + Len(attribution_full),
                                           "ITALIC_PURPLE") >>
       ELSE requests

\* faulty variant: the tail delete keeps the coordinates of the original snapshot
PreservationRequestsUnshifted(index, new_text, commented_range) ==
    LET start_idx == commented_range.start_index
        end_idx == commented_range.end_index
        insert_position == start_idx + ((end_idx - start_idx) \div 2)
    IN << InsertTextReq(insert_position, None, new_text) >>
       \o (IF end_idx > insert_position
           THEN << DeleteRangeReq(insert_position, end_idx) >> ELSE <<>>)
       \o (IF insert_position > start_idx
           THEN << DeleteRangeReq(start_idx, insert_position) >> ELSE <<>>)

\* faulty variant: the commented text is deleted first, the new text inserted
\* in its place afterwards
PreservationRequestsDeleteFirst(index, new_text, commented_range) ==
    LET start_idx == commented_range.start_index
        end_idx == commented_range.end_index
    IN (IF end_idx > start_idx THEN << DeleteRangeReq(start_idx, end_idx) >> ELSE <<>>)
       \o << InsertTextReq(start_idx, None, new_text) >>

\* faulty variant: the new text is inserted at the start of the range
PreservationRequestsSplitAtStart(index, new_text, commented_range) ==
    LET start_idx == commented_range.start_index
        end_idx == commented_range.end_index
    IN << InsertTextReq(start_idx, None, new_text) >>
       \o (IF end_idx > start_idx
           THEN << DeleteRangeReq(start_idx + Len(new_text), end_idx + Len(new_text)) >>
           ELSE <<>>)

\* faulty variant: the head is deleted before the tail
PreservationRequestsHeadFirst(index, new_text, commented_range) ==
    LET start_idx == commented_range.start_index
        end_idx == commented_range.end_index
        insert_position == start_idx + ((end_idx - start_idx) \div 2)
        head == insert_position - start_idx
    IN << InsertTextReq(insert_position, None, new_text) >>
       \o (IF head > 0 THEN << DeleteRangeReq(start_idx, insert_position) >> ELSE <<>>)
       \o (IF end_idx > insert_position
           THEN << DeleteRangeReq(insert_position + Len(new_text) - head,
                                  end_idx + Len(new_text) - head) >>
           ELSE <<>>)

\* faulty variant: both deletes are emitted whatever their length
PreservationRequestsUnguarded(index, new_text, commented_range) ==
    LET start_idx == commented_range.start_index
        end_idx == commented_range.end_index
        insert_position == start_idx + ((end_idx - start_idx) \div 2)
    IN << InsertTextReq(insert_position, None, new_text),
          DeleteRangeReq(insert_position + Len(new_text), end_idx + Len(new_text)),
          DeleteRangeReq(start_idx, insert_position) >>

\* the requests ContentInserter._insert_with_comment_preservation puts in its
\* batch (Case B); the index argument is not read
PreservationRequests(index, new_text, commented_range) ==
    LET start_idx == commented_range.start_index
        end_idx == commented_range.end_index
        insert_position == start_idx + ((end_idx - start_idx) \div 2)
        delete_after_start == insert_position + Len(new_text)
        delete_after_end == end_idx + Len(new_text)
    IN << InsertTextReq(insert_position, None, new_text) >>
       \o (IF delete_after_end > delete_after_start
           THEN << DeleteRangeReq(delete_after_start, delete_after_end) >> ELSE <<>>)
       \o (IF insert_position > start_idx
           THEN << DeleteRangeReq(start_idx, insert_position) >> ELSE <<>>)

\* ContentInserter.insert_content: commented_range is None (<<>>) or <<range>>
InsertContentRequests(index, content, tab_id, commented_range, add_inline_attribution, attribution_text) ==
    IF commented_range # None
    THEN PreservationRequests(index, content, commented_range[1])
    ELSE SimpleInsertRequests(index, content, tab_id, add_inline_attribution,
                              attribution_text)

----------------------------------------------------------------------------
(* Attribution annotator: CommentManager                                   *)

IsSpace(c) == c \in {NL, " "}
RECURSIVE LStrip(_)
LStrip(s) == IF s # <<>> /\ IsSpace(s[1]) THEN LStrip(Tail(s)) ELSE s
RECURSIVE RStrip(_)
RStrip(s) == IF s # <<>> /\ IsSpace(s[Len(s)]) THEN RStrip(SubSeq(s, 1, Len(s) - 1)) ELSE s
\* str.strip()
Strip(s) == LStrip(RStrip(s))

SearchPrefixLen == 50
\* clean_content[:min(50, len(clean_content))]
SearchText(formatted_content) ==
    LET clean_content == Strip(formatted_content)
        search_length == IF Len(clean_content) < SearchPrefixLen
                         THEN Len(clean_content) ELSE SearchPrefixLen
    IN SubSeq(clean_content, 1, search_length)

\* str.find(t, pos): the first offset >= pos where t occurs, -1 if none
FindFrom(s, t, pos) ==
    IF \E k \in pos..Len(s) : OccursAt(s, t, k)
    THEN CHOOSE k \in pos..Len(s) :
            OccursAt(s, t, k) /\ \A j \in pos..(k - 1) : ~OccursAt(s, t, j)
    ELSE -1

ExcerptRadius == 40
Max(a, b) == IF a > b THEN a ELSE b
Min(a, b) == IF a < b THEN a ELSE b
SpacesForNL(s) == [i \in 1..Len(s) |-> IF s[i] = NL THEN " " ELSE s[i]]

RECURSIVE OccurrencesFromUnclipped(_, _, _, _, _)
\* faulty variant: the excerpt is the whole paragraph
OccurrencesFromUnclipped(full_text, search_text, para_idx, start_index, pos) ==
    LET idx == FindFrom(Lower(full_text), Lower(search_text), pos)
    IN IF idx = -1 THEN <<>>
       ELSE <<[paragraph_index |-> para_idx, doc_start |-> start_index + idx,
               length |-> Len(search_text),
               excerpt |-> Strip(SpacesForNL(full_text))]>>
            \o OccurrencesFromUnclipped(full_text, search_text, para_idx, start_index,
                                        idx + Len(search_text))

RECURSIVE OccurrencesFrom(_, _, _, _, _)
\* the occurrence scan of _find_text_in_document in one paragraph; it advances
\* by len(search_text), so it is evaluated for a non-empty search text only
OccurrencesFrom(full_text, search_text, para_idx, start_index, pos) ==
    LET idx == FindFrom(Lower(full_text), Lower(search_text), pos)
    IN IF idx = -1 THEN <<>>
       ELSE LET excerpt_start == Max(0, idx - ExcerptRadius)
                excerpt_end == Min(Len(full_text), idx + Len(search_text) + ExcerptRadius)
            IN <<[paragraph_index |-> para_idx, doc_start |-> start_index + idx,
                  length |-> Len(search_text),
                  excerpt |-> Strip(SpacesForNL(
                                 SubSeq(full_text, excerpt_start + 1, excerpt_end)))]>>
               \o OccurrencesFrom(full_text, search_text, para_idx, start_index,
                                  idx + Len(search_text))

RECURSIVE FindInParagraphs(_, _, _)
\* CommentManager._find_text_in_document over the elements still to visit;
\* para_idx is the index of the last paragraph visited
FindInParagraphs(elems, search_text, para_idx) ==
    IF elems = <<>> THEN <<>>
    ELSE LET e == Head(elems)
         IN IF e.kind # "paragraph"
            THEN FindInParagraphs(Tail(elems), search_text, para_idx)
            ELSE (IF e.elements = <<>> THEN <<>>
                  ELSE OccurrencesFrom(ConcatRuns(e.elements), search_text, para_idx + 1,
                                       e.elements[1].startIndex, 0))
                 \o FindInParagraphs(Tail(elems), search_text, para_idx + 1)

FindTextInDocument(d, bk, search_text) == FindInParagraphs(BodyContent(d, bk), search_text, -1)

\* the scan `while True: idx = find(search, pos) ... pos = idx + len(search)`
\* never advances for an empty search text in a paragraph that has text
ScanDiverges(d, bk, search_text) ==
    search_text = <<>> /\ \E i \in 1..Len(BodyContent(d, bk)) :
                              BodyContent(d, bk)[i].elements # <<>>

\* a comment of the annotation store
Comment(id, anchor, resolved, body) ==
    [id |-> id, anchor |-> anchor, resolved |-> resolved, body |-> body]
UserBody == [kind |-> "user", paragraph_index |-> -1, excerpt |-> <<>>]
PlainBody == [kind |-> "source", paragraph_index |-> -1, excerpt |-> <<>>]
ContextBody(m) ==
    [kind |-> "source_with_context", paragraph_index |-> m.paragraph_index,
     excerpt |-> m.excerpt]

----------------------------------------------------------------------------
(* Initial stores and the inputs of the calls                              *)

\* paragraphs an initial document is made of
HeadingPara == << Cell("A", "HEADING_1", "plain"), Cell("b", "HEADING_1", "plain"),
                  Cell(NL, "HEADING_1", "plain") >>
TwoRunPara == << Cell("a", "NORMAL_TEXT", "plain"), Cell("b", "NORMAL_TEXT", "bold"),
                 Cell(NL, "NORMAL_TEXT", "bold") >>
OneRunPara == << Cell("b", "NORMAL_TEXT", "plain"), Cell(NL, "NORMAL_TEXT", "plain") >>
ParaPool == {HeadingPara, TwoRunPara}

RECURSIVE DocsUpTo(_)
\* the documents of at most n paragraphs
DocsUpTo(n) ==
    IF n = 0 THEN {<<>>}
    ELSE LET shorter == DocsUpTo(n - 1)
         IN shorter \cup {d \o p : d \in shorter, p \in ParaPool}

\* a paragraph with more text either side of its 'a' than an excerpt takes
LongPara ==
    [i \in 1..(2 * LongSide + 2) |->
        Cell(IF i = LongSide + 1 THEN "a" ELSE IF i = 2 * LongSide + 2 THEN NL ELSE "b",
             "NORMAL_TEXT", "plain")]

\* a table of one cell holding the paragraph "ab", in one text run
TableOfAb ==
    << TableChar("<table>", "NORMAL_TEXT", "plain"),
       TableChar("<tableRow>", "NORMAL_TEXT", "plain"),
       TableChar("<tableCell>", "NORMAL_TEXT", "plain"),
       TableChar("a", "NORMAL_TEXT", "plain"), TableChar("b", "NORMAL_TEXT", "plain"),
       TableChar(NL, "NORMAL_TEXT", "plain") >>
\* a section made of its heading, a paragraph of two text runs and a table,
\* followed by the heading of the next section
TableDoc == HeadingPara \o TwoRunPara \o TableOfAb \o HeadingPara

InitDocs == DocsUpTo(MaxParas) \cup {LongPara, TableDoc}

\* anchors of the annotations initially in the store: quotedFileContent absent,
\* a word, a word that spans two text runs of TwoRunPara, the tail of a paragraph
AnchorPool == {None, Some(<<"b">>), Some(<<"a", "b">>), Some(<<"b", NL>>)}

UserComment(id, anchor) == Comment(id, anchor, FALSE, UserBody)
\* the annotation lists initially in the store: none, one, and two pairs
InitComments ==
    {<<>>} \cup {<<UserComment(1, a)>> : a \in AnchorPool}
           \cup {<<UserComment(1, Some(<<"b">>)), UserComment(2, Some(<<"b", NL>>))>>,
                 <<UserComment(1, None), UserComment(2, Some(<<"b">>))>>}

\* arguments of merge_content
\* a word, nothing, two lines
Contents == {<<"a">>, <<>>, <<"a", NL, "b">>}
SectionHints == {None, Some(<<"a", "b">>), Some(<<"A", "A">>)}
\* MergeOptions
MergeOptions(p, cs, sc, ia, sd) ==
    [preserve_comments |-> p, comment_strategy |-> cs, add_source_comment |-> sc,
     add_inline_attribution |-> ia, source_description |-> sd, target_section |-> None]
\* the defaults with no source described; with one described, every planner
\* strategy and policy with both attributions or none, and the defaults with
\* one attribution only
MergeOptionsSet ==
    {MergeOptions(TRUE, "preserve", TRUE, TRUE, None)}
    \cup {MergeOptions(p, cs, both, both, Some(<<"b">>)) :
             p \in BOOLEAN, cs \in {"preserve", "ask"}, both \in BOOLEAN}
    \cup {MergeOptions(TRUE, "preserve", sc, ~sc, Some(<<"b">>)) : sc \in BOOLEAN}

\* the options of the merges whose document read fails
ReadFailOptions == {MergeOptions(TRUE, "preserve", TRUE, TRUE, None),
                    MergeOptions(FALSE, "ask", FALSE, FALSE, Some(<<"b">>))}

\* error messages of the document store
StoreErrors == {"HttpError 400: Invalid requests[0].insertText"}

NoReq == [call |-> "none"]
NoResult == [success |-> FALSE, requires_user_decision |-> FALSE,
             affected_comments |-> <<>>, options |-> <<>>, message |-> "",
             error |-> "", comments_preserved |-> 0, new_comment_id |-> None]

\* a document URL that names no tab
NoTab == [id |-> None, body |-> <<>>]

InitStore ==
    /\ bodyKind \in {"content", "missing"}
    /\ tab = NoTab
    /\ doc \in IF bodyKind = "missing" THEN {<<>>} ELSE InitDocs
    /\ comments \in InitComments

InitCall ==
    /\ req = NoReq
    /\ ip = NoInsertionPoint
    /\ plan = <<>>
    /\ batches = <<>>
    /\ storeReply = "none"
    /\ result = NoResult
    /\ snap = [doc |-> doc, comments |-> comments]
    /\ commentReplies = <<>>
    /\ otherEdits = <<>>
    /\ calls = <<>>

Init == InitStore /\ pc = "idle" /\ InitCall

----------------------------------------------------------------------------
(* merge_content                                                           *)

store == <<doc, bodyKind, tab, comments>>

\* merge_content up to the submission of the batch: planning, the 'ask'
\* short-circuit, formatting, insert_content and the batch of _simple_insert
MergeContent(content, section, options) ==
    /\ pc = "idle"
    /\ LET tab_id == tab.id
           strategy == IF options.preserve_comments THEN "safe" ELSE "simple"
           hint == IF Truthy(section) THEN section ELSE options.target_section
           insertion_point ==
               CalculateInsertionPoint(doc, bodyKind, comments, hint, strategy)
           formatted_content == FormatContentForInsertion(content)
           requests == InsertContentRequests(insertion_point.index, formatted_content,
                           tab_id, None, options.add_inline_attribution,
                           options.source_description)
       IN /\ req' = [call |-> "merge", content |-> content, section |-> section,
                     options |-> options, formatted_content |-> formatted_content]
          /\ IF insertion_point.exc # "none"
             THEN \* except Exception as e: return {'success': False, ...}
                  /\ ip' = insertion_point
                  /\ result' = [NoResult EXCEPT !.message = "Error: list index out of range",
                                                !.error = "list index out of range"]
                  /\ pc' = "returned"
                  /\ UNCHANGED <<plan, batches>>
             ELSE IF insertion_point.affected_comments # <<>>
                     /\ options.comment_strategy = "ask"
             THEN /\ ip' = insertion_point
                  /\ result' = [NoResult EXCEPT
                        !.requires_user_decision = TRUE,
                        !.affected_comments = insertion_point.affected_comments,
                        !.options = <<"insert_before", "insert_after",
                                      "update_with_preservation">>,
                        !.message = "Insertion would affect {n} comment(s)"]
                  /\ pc' = "returned"
                  /\ UNCHANGED <<plan, batches>>
             ELSE /\ ip' = insertion_point
                  /\ plan' = requests
                  /\ batches' = Append(batches, requests)
                  /\ pc' = "batch"
                  /\ UNCHANGED result
    /\ snap' = [doc |-> doc, comments |-> comments]
    /\ UNCHANGED <<commentReplies, otherEdits, calls>>
    /\ UNCHANGED <<store, storeReply>>

\* exceptions GoogleDocsEditor.get_document raises for a document that is
\* absent (404) and for one the user may not read (403), with their str()
ReadErrors == {"ValueError", "PermissionError"}
ReadErrorText(e) ==
    IF e = "ValueError" THEN "Document not found"
    ELSE "No permission to access document"

\* faulty variant: the failure of the document read leaves merge_content as
\* the raised exception
MergeContentReadRaises(content, section, options, e) ==
    /\ pc = "idle"
    /\ req' = [call |-> "merge", content |-> content, section |-> section,
               options |-> options, formatted_content |-> <<>>]
    /\ ip' = PlannerRaised(e)
    /\ pc' = "raised"
    /\ snap' = [doc |-> doc, comments |-> comments]
    /\ UNCHANGED <<commentReplies, otherEdits, calls>>
    /\ UNCHANGED <<store, plan, batches, storeReply, result>>

\* merge_content when the document read of analyze_document raises e: the
\* exception passes through calculate_insertion_point and is caught by the
\* `except Exception` of merge_content
MergeContentReadFails(content, section, options, e) ==
    /\ pc = "idle"
    /\ req' = [call |-> "merge", content |-> content, section |-> section,
               options |-> options, formatted_content |-> <<>>]
    /\ ip' = PlannerRaised(e)
    /\ result' = [NoResult EXCEPT !.message = "Error: " \o ReadErrorText(e),
                                  !.error = ReadErrorText(e)]
    /\ pc' = "returned"
    /\ snap' = [doc |-> doc, comments |-> comments]
    /\ UNCHANGED <<commentReplies, otherEdits, calls>>
    /\ UNCHANGED <<store, plan, batches, storeReply>>

\* faulty variant: the result counts no annotation
SuccessResultCountingNone(new_comment_id) ==
    [NoResult EXCEPT !.success = TRUE,
                     !.new_comment_id = new_comment_id,
                     !.message = "Content inserted successfully."]

\* the success return of merge_content
SuccessResult(new_comment_id) ==
    [NoResult EXCEPT !.success = TRUE,
                     !.comments_preserved = Len(ip.affected_comments),
                     !.new_comment_id = new_comment_id,
                     !.message = "Content inserted successfully."]

\* the edits another actor makes while the batch of the merge is on its way
OtherEdits == {InsertTextReq(1, None, Text(OneRunPara)), DeleteRangeReq(1, 2)}

\* another actor edits the document between the reads of merge_content and
\* the store's handling of its batch; the batch carries no revision and is
\* not recomputed
OtherActorEdits(r) ==
    /\ pc = "batch"
    /\ otherEdits = <<>>
    /\ ValidRequest(doc, r)
    /\ doc' = ApplyRequest(doc, r)
    /\ otherEdits' = <<r>>
    /\ UNCHANGED <<bodyKind, tab, comments, pc, req, ip, plan, batches, storeReply, result,
                   snap, commentReplies, calls>>

\* faulty variant: the offsets of the batch are computed again on the document
\* as it is when the batch is submitted
BatchAppliedRebased ==
    /\ pc = "batch"
    /\ LET strategy == IF req.options.preserve_comments THEN "safe" ELSE "simple"
           hint == IF Truthy(req.section) THEN req.section ELSE req.options.target_section
           again == CalculateInsertionPoint(doc, bodyKind, comments, hint, strategy)
           requests == InsertContentRequests(again.index, req.formatted_content, None, None,
                           req.options.add_inline_attribution,
                           req.options.source_description)
       IN /\ again.exc = "none"
          /\ BatchValid(doc, requests)
          /\ doc' = ApplyBatch(doc, requests)
          /\ plan' = requests /\ batches' = <<requests>>
    /\ storeReply' = "ok"
    /\ IF req.options.add_source_comment /\ Truthy(req.options.source_description)
       THEN pc' = "source_comment" /\ UNCHANGED result
       ELSE pc' = "returned" /\ result' = SuccessResult(None)
    /\ UNCHANGED <<bodyKind, tab, comments, req, ip, snap, commentReplies, otherEdits, calls>>

\* the store applies the batch; merge goes on to the source comment, or returns
BatchApplied ==
    /\ pc = "batch"
    /\ LET bodies == [first |-> doc, named |-> tab.body]
       IN /\ BatchValidInTabs(bodies, plan)
          /\ doc' = ApplyBatchInTabs(bodies, plan).first
          /\ tab' = [tab EXCEPT !.body = ApplyBatchInTabs(bodies, plan).named]
    /\ storeReply' = "ok"
    /\ IF req.options.add_source_comment /\ Truthy(req.options.source_description)
       THEN pc' = "source_comment" /\ UNCHANGED result
       ELSE pc' = "returned" /\ result' = SuccessResult(None)
    /\ UNCHANGED <<bodyKind, comments, req, ip, plan, batches, snap, commentReplies, otherEdits, calls>>

\* the store refuses the batch: _simple_insert prints the error and returns
\* False, merge returns 'Failed to insert content'
BatchRejected(e) ==
    /\ pc = "batch"
    /\ storeReply' = e
    /\ result' = [NoResult EXCEPT !.message = "Failed to insert content"]
    /\ pc' = "returned"
    /\ UNCHANGED <<store, req, ip, plan, batches, snap, commentReplies, otherEdits, calls>>

\* Phase 4 of merge_content: create_comment_with_context, which returns None
\* when the text is not found or its create is refused (HttpError), then the
\* fallback create_comment, whose HttpError merge_content catches.
\* context_created and plain_created are the annotation store's answers.
SourceComment(context_created, plain_created) ==
    /\ pc = "source_comment"
    /\ LET search_text == SearchText(req.formatted_content)
       IN /\ ~ScanDiverges(doc, bodyKind, search_text)
          /\ LET matches == FindTextInDocument(doc, bodyKind, search_text)
                 new_id == Len(comments) + 1
                 first == IF matches = <<>> THEN <<>>
                          ELSE IF context_created THEN <<"created">> ELSE <<"refused">>
             IN IF matches # <<>> /\ context_created
                THEN /\ comments' = Append(comments,
                            Comment(new_id, None, FALSE, ContextBody(matches[1])))
                     /\ commentReplies' = first
                     /\ result' = SuccessResult(Some(new_id))
                ELSE IF plain_created
                THEN /\ comments' = Append(comments, Comment(new_id, None, FALSE, PlainBody))
                     /\ commentReplies' = Append(first, "created")
                     /\ result' = SuccessResult(Some(new_id))
                ELSE /\ UNCHANGED comments
                     /\ commentReplies' = Append(first, "refused")
                     /\ result' = SuccessResult(None)
    /\ pc' = "returned"
    /\ UNCHANGED <<doc, bodyKind, tab, req, ip, plan, batches, storeReply, snap, otherEdits, calls>>

\* the occurrence scan of the attribution search does not end
SourceCommentScan ==
    /\ pc = "source_comment"
    /\ ScanDiverges(doc, bodyKind, SearchText(req.formatted_content))
    /\ pc' = "scanning"
    /\ UNCHANGED <<store, req, ip, plan, batches, storeReply, result, snap, commentReplies, otherEdits, calls>>

Next ==
    \/ \E content \in Contents, section \in SectionHints, options \in MergeOptionsSet :
          MergeContent(content, section, options)
    \/ \E content \in Contents, options \in ReadFailOptions, e \in ReadErrors :
          MergeContentReadFails(content, None, options, e)
    \/ \E r \in OtherEdits : OtherActorEdits(r)
    \/ BatchApplied
    \/ \E e \in StoreErrors : BatchRejected(e)
    \/ \E context_created \in BOOLEAN, plain_created \in BOOLEAN :
          SourceComment(context_created, plain_created)
    \/ SourceCommentScan

Spec == Init /\ [][Next]_vars

----------------------------------------------------------------------------
(* insert_content with a commented range (Case B), its plan applied to the *)
(* buffer one request at a time                                            *)

\* buffers of plain text
PlainBuffer(t) == [i \in 1..Len(t) |-> Cell(t[i], "NORMAL_TEXT", "plain")]
InitBuffers == {PlainBuffer(t) : t \in StringsUpTo({"a", "b"}, MaxBuf) \ {<<>>}}
NewTexts == StringsUpTo({"A", "b"}, MaxNew)

CommentedRange(start_index, end_index, comment_id, anchor_text) ==
    [start_index |-> start_index, end_index |-> end_index, comment_id |-> comment_id,
     anchor_text |-> anchor_text]

InitB ==
    /\ bodyKind = "content" /\ tab = NoTab
    /\ doc \in InitBuffers
    /\ comments = <<>>
    /\ pc = "idle"
    /\ InitCall

\* insert_content(doc_id, index, content, commented_range=cr)
InsertContent(index, content, cr) ==
    /\ pc = "idle"
    /\ req' = [call |-> "insert_content", index |-> index, content |-> content,
               commented_range |-> cr]
    /\ plan' = InsertContentRequests(index, content, None, Some(cr), FALSE, None)
    /\ batches' = Append(batches, plan')
    /\ pc' = "applying"
    /\ snap' = [doc |-> doc, comments |-> comments]
    /\ UNCHANGED <<commentReplies, otherEdits, calls>>
    /\ UNCHANGED <<store, ip, storeReply, result>>

\* the store refuses the whole batch, one of its requests being invalid;
\* _insert_with_comment_preservation catches the error and returns False
BatchRefused ==
    /\ pc = "applying"
    /\ plan = batches[1]
    /\ ~BatchValid(doc, plan)
    /\ pc' = "refused"
    /\ storeReply' = "HttpError 400: Invalid requests[0].insertText"
    /\ UNCHANGED <<store, req, ip, plan, batches, result, snap, commentReplies,
                   otherEdits, calls>>

\* the next request of the batch the store accepted takes effect on the buffer
ApplyStep ==
    /\ pc = "applying"
    /\ BatchValid(doc, plan)
    /\ doc' = ApplyRequest(doc, Head(plan))
    /\ plan' = Tail(plan)
    /\ pc' = IF Tail(plan) = <<>> THEN "applied" ELSE "applying"
    /\ UNCHANGED <<bodyKind, tab, comments, req, ip, batches, storeReply, result, snap, commentReplies, otherEdits, calls>>

NextB ==
    \/ \E s \in 1..Len(doc) : \E e \in s..(Len(doc) + 1) :
         \E index \in s..e, content \in NewTexts :
            InsertContent(index, content,
                CommentedRange(s, e, 1, SubSeq(Text(doc), s, e - 1)))
    \/ BatchRefused
    \/ ApplyStep

SpecB == InitB /\ [][NextB]_vars

----------------------------------------------------------------------------
(* _format_content_for_insertion applied to a content string, and again to *)
(* its own result                                                          *)

FormatInputs == StringsUpTo({"a", " ", NL}, MaxContent)

InitF ==
    /\ bodyKind = "content" /\ doc = <<>> /\ comments = <<>> /\ tab = NoTab
    /\ pc = "idle"
    /\ req \in {[call |-> "format", content |-> c] : c \in FormatInputs}
    /\ ip = NoInsertionPoint /\ plan = <<>> /\ batches = <<>>
    /\ storeReply = "none"
    /\ result = <<>>
    /\ snap = [doc |-> doc, comments |-> comments]
    /\ commentReplies = <<>>
    /\ otherEdits = <<>> /\ calls = <<>>

\* formatted_content = self._format_content_for_insertion(content)
FormatContent ==
    /\ pc = "idle"
    /\ result' = FormatContentForInsertion(req.content)
    /\ pc' = "formatted"
    /\ UNCHANGED <<store, req, ip, plan, batches, storeReply, snap, commentReplies, otherEdits, calls>>

\* the formatter applied to content it has already padded
FormatAgain ==
    /\ pc = "formatted"
    /\ req' = [req EXCEPT !.content = result]
    /\ result' = FormatContentForInsertion(result)
    /\ pc' = "formatted_again"
    /\ UNCHANGED <<store, ip, plan, batches, storeReply, snap, commentReplies, otherEdits, calls>>

NextF == FormatContent \/ FormatAgain

SpecF == InitF /\ [][NextF]_vars

----------------------------------------------------------------------------
(* Properties                                                              *)

\* C1: Case B replaces the commented text in place: once the whole plan is
\* applied, the buffer is the old text before start, then the new text, then
\* the old text from end on, and its length has changed by Len(U) - Len(T).
CaseBReplacesInPlace ==
    pc = "applied" =>
        LET old == Text(snap.doc)
            cr == req.commented_range
        IN /\ Text(doc) = SubSeq(old, 1, cr.start_index - 1) \o req.content
                            \o SubSeq(old, cr.end_index, Len(old))
           /\ Len(doc) = Len(snap.doc) + Len(req.content)
                           - (cr.end_index - cr.start_index)

\* a three-request plan (insert, tail delete, head delete) has been applied
CaseBReplacedWitness ==
    /\ pc = "applied"
    /\ Len(batches[1]) = 3
    /\ Len(req.content) = 2
    /\ req.commented_range.end_index - req.commented_range.start_index >= 2
    /\ Text(doc) # Text(snap.doc)


----------------------------------------------------------------------------
(* merge_content: the planner's outcome                                    *)

\* the planner of the merge in progress returned an insertion point
Planned == req.call = "merge" /\ ip.exc = "none"
\* the document read of the merge in progress succeeded
ReadOk == req.call = "merge" /\ ip.exc \notin ReadErrors
\* section or options.target_section
HintOf(r) == IF Truthy(r.section) THEN r.section ELSE r.options.target_section
\* the commented ranges of the snapshot the merge planned on
SnapRanges == FindCommentedRanges(snap.doc, bodyKind, snap.comments)
RangeIds(idx) == {SnapRanges[i].comment_id : i \in idx}
Elems(q) == {q[i] : i \in 1..Len(q)}

\* C2: once the batch of _simple_insert is applied, the text at
\* [offset, offset + Len(padded)) is the padded content and the paragraph at
\* the offset has the style NORMAL_TEXT.
CaseAInsertsPaddedContent ==
    (req.call = "merge" /\ storeReply = "ok" /\ otherEdits = <<>>) =>
        LET padded == req.formatted_content
        IN /\ SubSeq(Text(doc), ip.index, ip.index + Len(padded) - 1) = padded
           /\ doc[ip.index].ps = "NORMAL_TEXT"
           /\ Len(doc) >= Len(snap.doc) + Len(padded)

\* a merge with inline attribution has inserted into a heading paragraph
CaseAInsertedWitness ==
    /\ req.call = "merge" /\ storeReply = "ok"
    /\ Len(batches[1]) = 4
    /\ snap.doc[ip.index].ps = "HEADING_1"
    /\ req.content # <<>>

\* C3: an offset strictly inside a resolved range is classified unsafe with
\* the range's annotation among the affected ones; an offset that no range
\* contains is classified safe with no affected annotation.
PlannerSafetyClassification ==
    Planned =>
        /\ \A i \in 1..Len(SnapRanges) :
              (SnapRanges[i].start_index < ip.index /\ ip.index < SnapRanges[i].end_index)
                 => (~ip.safe /\ SnapRanges[i].comment_id \in Elems(ip.affected_comments))
        /\ (\A i \in 1..Len(SnapRanges) : ~RangeContains(SnapRanges[i], ip.index))
              => (ip.safe /\ ip.affected_comments = <<>>)

\* C4: a merge under the 'ask' policy whose offset falls within a commented
\* range returns the decision payload, submits no batch and creates no
\* annotation.
AskShortCircuitsUnsafeMerge ==
    (Planned /\ req.options.comment_strategy = "ask"
       /\ \E i \in 1..Len(SnapRanges) : RangeContains(SnapRanges[i], ip.index))
    => /\ result.requires_user_decision
       /\ Elems(result.affected_comments)
            = RangeIds({i \in 1..Len(SnapRanges) : RangeContains(SnapRanges[i], ip.index)})
       /\ result.options # <<>>
       /\ batches = <<>>
       /\ doc = snap.doc /\ comments = snap.comments

\* C5: every annotation whose anchor occurs verbatim in the document text
\* resolves to exactly one range, and the text of that range is the anchor.
ResolverFindsVerbatimAnchors ==
    req.call = "merge" =>
        \A k \in 1..Len(snap.comments) :
            LET c == snap.comments[k]
                mine == {i \in 1..Len(SnapRanges) : SnapRanges[i].comment_id = c.id}
            IN (Truthy(c.anchor) /\ ~c.resolved /\ Contains(Text(snap.doc), c.anchor[1]))
               => /\ Cardinality(mine) = 1
                  /\ \A i \in mine :
                        SubSeq(Text(snap.doc), SnapRanges[i].start_index,
                               SnapRanges[i].end_index - 1) = c.anchor[1]

\* C6: when a hint is given and a section whose heading contains it exists,
\* the planner returns sectionEnd - 1 with strategy 'after', whether merge
\* plans with preserve_comments True or False.
FoundSectionPlansSectionEnd ==
    (Planned /\ Truthy(HintOf(req))
       /\ FindSectionBoundaries(AnalyzeSections(snap.doc, bodyKind), HintOf(req)[1]) # None)
    => LET bounds == FindSectionBoundaries(AnalyzeSections(snap.doc, bodyKind),
                                           HintOf(req)[1])[1]
       IN ip.index = bounds.end - 1 /\ ip.strategy = "after"

\* C7: with no section hint, on a document that has a last block, the planner
\* returns the end offset of the last block minus one (the buffer's last
\* index) and classifies it safe.
NoHintPlansDocumentEnd ==
    (ReadOk /\ ~Truthy(HintOf(req)) /\ snap.doc # <<>>)
    => /\ ip.exc = "none"
       /\ ip.index = Len(snap.doc)
       /\ ip.safe /\ ip.affected_comments = <<>>

\* a merge with no hint planned on a document with a resolved annotation
NoHintPlannedWitness ==
    /\ Planned /\ req.section = None
    /\ Len(snap.doc) >= 5
    /\ SnapRanges # <<>>
    /\ ip.index = Len(snap.doc)

\* C8: on a document with no block (body content missing or an empty list)
\* the planner returns offset 1, safe.
EmptyDocumentPlansOffsetOne ==
    (ReadOk /\ snap.doc = <<>>)
    => (ip.exc = "none" /\ ip.index = 1 /\ ip.safe)

\* C9: a merge whose reads succeeded and that is not short-circuited by the 'ask' policy has submitted
\* exactly one batch, which holds every request of its plan; a short-circuited
\* merge has submitted none.
ExactlyOneBatchPerMerge ==
    ReadOk =>
        IF result.requires_user_decision
        THEN batches = <<>>
        ELSE Len(batches) = 1 /\ batches[1] = plan

\* the same, for the merges whose planner returned
OneBatchWhenPlanned ==
    Planned =>
        IF result.requires_user_decision
        THEN batches = <<>>
        ELSE Len(batches) = 1 /\ batches[1] = plan

\* C10: after the store rejected the batch, the result's message is
\* the store's error message, the batch was submitted once and no annotation
\* was created.
RejectedBatchReturnsRawError ==
    (req.call = "merge" /\ storeReply \in StoreErrors)
    => /\ ~result.success
       /\ result.message = storeReply
       /\ Len(batches) = 1
       /\ comments = snap.comments

\* What merge_content does return after a rejected batch: success = false
\* with the fixed message 'Failed to insert content' and no error detail; the
\* batch was submitted once, nothing was mutated, no annotation was created.
RejectedBatchReturnsFailure ==
    (req.call = "merge" /\ storeReply \in StoreErrors)
    => /\ pc = "returned"
       /\ ~result.success
       /\ result.message = "Failed to insert content"
       /\ result.error = ""
       /\ Len(batches) = 1
       /\ comments = snap.comments /\ doc = snap.doc

\* the store rejected the batch of a merge that asked for a source comment
RejectedBatchWitness ==
    /\ req.call = "merge" /\ storeReply \in StoreErrors
    /\ req.options.add_source_comment /\ Truthy(req.options.source_description)
    /\ BatchValid(doc, plan)

\* C11: a merge that failed has returned a structured result (success = false
\* with a message) and raised nothing, except that a failure of the document
\* read (document absent, permission denied) has left merge as the raised
\* exception and not as a result.
ReadFailurePropagates ==
    (req.call = "merge" /\ (ip.exc # "none" \/ storeReply \in StoreErrors))
    => IF ip.exc \in ReadErrors
       THEN pc = "raised" /\ result = NoResult
       ELSE pc = "returned" /\ ~result.success /\ result.message # ""

\* What merge_content does: every failure, the failures of the document read
\* among them, has returned a structured result (success = false with a
\* message) and no exception has left merge.
EveryFailureIsStructured ==
    /\ pc # "raised"
    /\ (req.call = "merge" /\ (ip.exc # "none" \/ storeReply \in StoreErrors))
       => /\ pc = "returned" /\ ~result.success /\ result.message # ""
          /\ ~result.requires_user_decision
          /\ ip.exc \in ReadErrors
                => (result.message = "Error: " \o ReadErrorText(ip.exc)
                    /\ result.error = ReadErrorText(ip.exc)
                    /\ batches = <<>> /\ doc = snap.doc)

\* the read of a merge failed with permission denied
ReadFailedWitness ==
    /\ req.call = "merge" /\ ip.exc = "PermissionError"
    /\ pc = "returned" /\ snap.doc # <<>>

\* the matches of the attribution search of the merge in progress, in the
\* document as it is after the batch
AttributionMatches == FindTextInDocument(doc, bodyKind, SearchText(req.formatted_content))
\* the annotations created by the call
NewComments == SubSeq(comments, Len(snap.comments) + 1, Len(comments))

AttributionExcerptWitness ==
    /\ req.call = "merge" /\ storeReply = "ok" /\ pc = "returned"
    /\ commentReplies = <<"created">>
    /\ NewComments # <<>> /\ NewComments[1].body.kind = "source_with_context"
    /\ Len(NewComments[1].body.excerpt) = 2 * ExcerptRadius + 1
    /\ Len(snap.doc) > 2 * ExcerptRadius + 2

\* the merge in progress runs under the 'preserve' policy and its planner
\* classified the insertion point unsafe
UnsafeUnderPreserve ==
    Planned /\ ~ip.safe /\ req.options.comment_strategy = "preserve"

\* C13: under the 'preserve' policy a merge whose insertion point is unsafe
\* performs the insertion, and the count of affected annotations in its
\* result is 0.
PreserveReportsNoneAffected ==
    UnsafeUnderPreserve
    => /\ Len(batches) = 1
       /\ (pc = "returned" /\ storeReply = "ok")
            => (result.success /\ result.comments_preserved = 0)

\* What merge_content does: under the 'preserve' policy a merge whose
\* insertion point is unsafe submits the insertion at that point, and once
\* it is applied the count in its result (comments_preserved) is the number
\* of affected annotations the planner listed, at least one.
PreserveReportsAffectedCount ==
    UnsafeUnderPreserve
    => /\ Len(batches) = 1
       /\ batches[1][1] = InsertTextReq(ip.index, None, req.formatted_content)
       /\ ip.affected_comments # <<>>
       /\ (pc = "returned" /\ storeReply = "ok")
            => /\ result.success
               /\ result.comments_preserved = Len(ip.affected_comments)
               /\ result.comments_preserved >= 1
               /\ SubSeq(Text(doc), ip.index, ip.index + Len(req.formatted_content) - 1)
                     = req.formatted_content

\* such a merge has returned after its batch was applied
UnsafeUnderPreserveWitness ==
    /\ UnsafeUnderPreserve
    /\ pc = "returned" /\ storeReply = "ok" /\ result.success
    /\ \E i \in 1..Len(SnapRanges) :
          SnapRanges[i].start_index < ip.index /\ ip.index < SnapRanges[i].end_index

BlankLine == <<NL, NL>>

\* C14: padding is idempotent and complete: the formatter applied to its own
\* result returns it unchanged, and the result of the formatter begins and
\* ends with a blank-line separator (two newlines), whatever the content.
PaddingIdempotentAndComplete ==
    /\ pc = "formatted"
         => (StartsWith(result, BlankLine) /\ EndsWith(result, BlankLine))
    /\ pc = "formatted_again" => result = req.content

\* the part of it that holds: the formatter applied to its own result
\* returns it unchanged, and its result begins and ends with a newline
PaddingIdempotent ==
    /\ pc = "formatted" => (StartsWith(result, <<NL>>) /\ EndsWith(result, <<NL>>))
    /\ pc = "formatted_again" => result = req.content

\* the requests merge_content builds from the snapshot it read
SnapshotRequests ==
    InsertContentRequests(
        CalculateInsertionPoint(snap.doc, bodyKind, snap.comments, HintOf(req),
            IF req.options.preserve_comments THEN "safe" ELSE "simple").index,
        req.formatted_content, None, None,
        req.options.add_inline_attribution, req.options.source_description)
\* the text after the planned offset in the snapshot, and the text after the
\* inserted content in the document
TextAfterPlanned == SubSeq(Text(snap.doc), ip.index, Len(snap.doc))
TextAfterInserted ==
    SubSeq(Text(doc), ip.index + Len(req.formatted_content), Len(doc))

\* C15: merge holds no lock and checks no revision: whatever another actor
\* did to the document after the read, the one batch submitted carries the
\* offsets computed from the old snapshot, and a merge whose batch the store
\* then applied reports success = true.
StaleOffsetsSubmitted ==
    (Planned /\ batches # <<>>)
    => /\ batches = <<SnapshotRequests>>
       /\ plan = SnapshotRequests
       /\ (otherEdits # <<>> /\ storeReply = "ok" /\ pc = "returned")
            => (result.success /\ ip.index = SnapshotRequests[1].index)

\* the interleaving of C15: another actor edited the document after the read,
\* the batch was applied, merge reported success, and the content planned for
\* the end of the section stands before text that was not after the planned
\* offset
RaceMisplacesContentWitness ==
    /\ Planned /\ otherEdits # <<>> /\ storeReply = "ok" /\ pc = "returned"
    /\ result.success
    /\ ip.strategy = "after"
    /\ ~req.options.add_inline_attribution
    /\ TextAfterPlanned = <<NL>>
    /\ TextAfterInserted # TextAfterPlanned
    /\ Len(TextAfterInserted) > 1

\* C16: insert_content with a commented range and an index inside the range
\* places the insertText request of its batch at that index.
InsertTextAtCallerIndex ==
    (req.call = "insert_content" /\ batches # <<>>)
    => (batches[1][1].op = "insertText" /\ batches[1][1].index = req.index)

\* the requests of the batch the store has applied so far
StepsApplied == Len(batches[1]) - Len(plan)
\* length of the region that began as the commented range: the original
\* characters of the range that survive and the inserted text
RegionLen ==
    Len(doc) - Len(snap.doc)
      + (req.commented_range.end_index - req.commented_range.start_index)

\* C17: after each request of a Case B batch (the insert, the tail delete,
\* the head delete) the region that began as the commented range holds at
\* least one character, and it is made of the surviving head of the range,
\* the new text and the surviving tail.
CaseBRangeNeverEmpty ==
    (req.call = "insert_content" /\ pc \in {"applying", "applied"} /\ StepsApplied >= 1)
    => LET cr == req.commented_range
           old == Text(snap.doc)
       IN /\ RegionLen >= 1
          /\ SubSeq(Text(doc), 1, cr.start_index - 1) = SubSeq(old, 1, cr.start_index - 1)
          /\ SubSeq(Text(doc), cr.start_index + RegionLen, Len(doc))
               = SubSeq(old, cr.end_index, Len(old))
          /\ Contains(SubSeq(Text(doc), cr.start_index, cr.start_index + RegionLen - 1),
                      req.content)

\* the insert and the tail delete are applied, the head delete is still to
\* come: the region is the head of the old text followed by the new text
CaseBMidPlanWitness ==
    /\ req.call = "insert_content" /\ pc = "applying"
    /\ Len(batches[1]) = 3 /\ StepsApplied = 2
    /\ RegionLen = Len(req.content) + 1
    /\ req.commented_range.end_index - req.commented_range.start_index = 3

\* C18: the Case B batch is insertText(splitPoint, newText), then the delete
\* of the tail [splitPoint + Len(newText), end + Len(newText)), then the
\* delete of the head [start, splitPoint), a delete of nothing being left
\* out; and after each request applied the buffer is the old text with the
\* new text at splitPoint and exactly the tail, then the head, of the range
\* removed: every request's offsets are those of the buffer it is applied to.
CaseBPlanOrderAndOffsets ==
    (req.call = "insert_content" /\ batches # <<>>)
    => LET rs == batches[1]
           cr == req.commented_range
           new == req.content
           sp == rs[1].index
           tail == IF cr.end_index > sp
                   THEN <<DeleteRangeReq(sp + Len(new), cr.end_index + Len(new))>>
                   ELSE <<>>
           head == IF sp > cr.start_index
                   THEN <<DeleteRangeReq(cr.start_index, sp)>> ELSE <<>>
           tailDone == tail # <<>> /\ StepsApplied >= 2
           headDone == head # <<>> /\ StepsApplied = Len(rs)
           old == Text(snap.doc)
       IN /\ rs[1] = InsertTextReq(sp, None, new)
          /\ cr.start_index <= sp /\ sp <= cr.end_index
          /\ rs = <<rs[1]>> \o tail \o head
          /\ (pc \in {"applying", "applied"} /\ StepsApplied >= 1)
               => Text(doc) = SubSeq(old, 1, (IF headDone THEN cr.start_index ELSE sp) - 1)
                                \o new
                                \o SubSeq(old, IF tailDone THEN cr.end_index ELSE sp, Len(old))

\* only the insert of a three-request batch is applied so far
CaseBInsertAppliedWitness ==
    /\ req.call = "insert_content" /\ pc = "applying"
    /\ Len(batches[1]) = 3 /\ StepsApplied = 1
    /\ Len(req.content) = 2
    /\ Len(doc) = Len(snap.doc) + 2

\* the split point of the Case B batch in progress
SplitPoint == batches[1][1].index

\* C19: for every commented range [start, end) handed to Case B the split
\* point is strictly inside the range, start < splitPoint < end, ranges of
\* length 1 and 2 included.
SplitPointStrictlyInterior ==
    (req.call = "insert_content" /\ batches # <<>>
       /\ req.commented_range.end_index > req.commented_range.start_index)
    => (req.commented_range.start_index < SplitPoint
        /\ SplitPoint < req.commented_range.end_index)

\* What the code computes: the split point is start + (end - start) div 2; it
\* lies within [start, end], is strictly inside the range when the range has
\* two characters or more, and is start itself for a range of one character
\* (which has no interior offset) and for an empty range.
SplitPointIsMidpoint ==
    (req.call = "insert_content" /\ batches # <<>>)
    => LET cr == req.commented_range
           len == cr.end_index - cr.start_index
       IN /\ cr.start_index <= SplitPoint /\ SplitPoint <= cr.end_index
          /\ len >= 2 => (cr.start_index < SplitPoint /\ SplitPoint < cr.end_index)
          /\ len <= 1 => SplitPoint = cr.start_index
          /\ 2 * (SplitPoint - cr.start_index) \in {len - 1, len}

\* a range of one character was handed to Case B
OneCharacterRangeWitness ==
    /\ req.call = "insert_content" /\ batches # <<>>
    /\ req.commented_range.end_index = req.commented_range.start_index + 1
    /\ SplitPoint = req.commented_range.start_index
    /\ pc = "applied" /\ req.content # <<>>

\* the indices of the document whose text style is the one of the attribution
StyledSpan == {i \in 1..Len(doc) : doc[i].ts = "ITALIC_PURPLE"}
\* inline attribution is requested and a description is present
WithAttribution ==
    req.options.add_inline_attribution /\ Truthy(req.options.source_description)

\* C20: with inline attribution requested and a description present the
\* Case A batch is insertText(offset, padded), setParagraphStyle(offset,
\* offset + Len(padded)), insertText(offset + Len(padded), attribution),
\* setTextStyle(offset + Len(padded), offset + Len(padded) + Len(attribution)),
\* and the first two requests alone otherwise; once it is applied the styled
\* span is exactly the attribution text, which directly follows the inserted
\* content, and holds no character of the content or of the old document.
CaseAAttributionPlan ==
    (Planned /\ batches # <<>>)
    => LET padded == req.formatted_content
           offset == ip.index
           at == offset + Len(padded)
           old == Text(snap.doc)
           attribution == IF WithAttribution
                          THEN AttributionFull(req.options.source_description[1])
                          ELSE <<>>
       IN /\ batches[1] =
               << InsertTextReq(offset, None, padded),
                  ParagraphStyleReq(offset, at, "NORMAL_TEXT") >>
               \o (IF WithAttribution
                   THEN << InsertTextReq(at, None, attribution),
                           TextStyleReq(at, at + Len(attribution), "ITALIC_PURPLE") >>
                   ELSE <<>>)
          /\ (storeReply = "ok" /\ otherEdits = <<>>)
               => /\ StyledSpan = at..(at + Len(attribution) - 1)
                  /\ Text(doc) = SubSeq(old, 1, offset - 1) \o padded \o attribution
                                   \o SubSeq(old, offset, Len(old))

\* a batch of four requests has been applied to a document that had text
\* after the offset
CaseAAttributionWitness ==
    /\ Planned /\ storeReply = "ok" /\ otherEdits = <<>>
    /\ WithAttribution /\ Len(batches[1]) = 4
    /\ Cardinality(StyledSpan) = Len(AttributionFull(req.options.source_description[1]))
    /\ ip.index < Len(snap.doc)
    /\ req.content # <<>>

----------------------------------------------------------------------------
(* Section span                                                            *)

\* a heading-styled block
IsHeadingBlock(e) == e.kind = "paragraph" /\ IsHeading(e.style)

\* positions of the heading-styled blocks whose text contains the hint,
\* case-insensitively
HeadingsMatching(elems, hint) ==
    {k \in 1..Len(elems) : /\ IsHeadingBlock(elems[k])
                           /\ ExtractParagraphText(elems[k]) # <<>>
                           /\ Contains(Lower(ExtractParagraphText(elems[k])), Lower(hint))}

\* [heading.start, E) for the first matching heading, E the end offset of the
\* last block of any kind before the next heading
SectionSpan(elems, hint) ==
    LET k == CHOOSE h \in HeadingsMatching(elems, hint) :
                 \A g \in HeadingsMatching(elems, hint) : h <= g
        later == {n \in (k + 1)..Len(elems) : IsHeadingBlock(elems[n])}
        last == IF later = {} THEN Len(elems)
                ELSE (CHOOSE n \in later : \A j \in later : n <= j) - 1
    IN [start |-> elems[k].startIndex, end |-> elems[last].endIndex]

\* C21: for the first heading-styled block whose text contains the hint, the
\* section's bounds are [heading.start, E), E being the end offset of the last
\* block, paragraph or table, that precedes the next heading.
SectionSpansToNextHeading ==
    (Planned /\ Truthy(HintOf(req))
       /\ HeadingsMatching(BodyContent(snap.doc, bodyKind), HintOf(req)[1]) # {})
    => FindSectionBoundaries(AnalyzeSections(snap.doc, bodyKind), HintOf(req)[1])
         = Some(SectionSpan(BodyContent(snap.doc, bodyKind), HintOf(req)[1]))

----------------------------------------------------------------------------
(* Resolver selection rules                                                *)

RECURSIVE FirstOccurrences(_, _)
\* one range per open annotation whose anchor is not empty and occurs in the
\* text, in annotation order: that of the anchor's first occurrence
FirstOccurrences(text, cms) ==
    IF cms = <<>> THEN <<>>
    ELSE LET c == Head(cms)
         IN (IF ~c.resolved /\ Truthy(c.anchor) /\ Contains(text, c.anchor[1])
             THEN <<[start_index |-> IndexOf(text, c.anchor[1]) + 1,
                     end_index |-> IndexOf(text, c.anchor[1]) + 1 + Len(c.anchor[1]),
                     comment_id |-> c.id, anchor_text |-> c.anchor[1]]>>
             ELSE <<>>) \o FirstOccurrences(text, Tail(cms))

\* C22: for each annotation the range returned is that of the first
\* occurrence of its anchor in document reading order, table cells included
\* in place; an annotation with an empty, missing or unfound anchor
\* contributes no range, so the result has at most one range per annotation
\* and preserves annotation order.
ResolverReturnsFirstOccurrence ==
    req.call = "merge" => SnapRanges = FirstOccurrences(Text(snap.doc), snap.comments)

\* the position of annotation id in the annotation list of the snapshot
CommentPosition(id) == CHOOSE k \in 1..Len(snap.comments) : snap.comments[k].id = id

\* the selection rules that hold whatever the text runs are: every range
\* belongs to an open annotation with a non-empty anchor and covers a verbatim
\* occurrence of it that no occurrence inside one text run precedes; ranges
\* keep the order of their annotations, at most one each
ResolverSelectionRules ==
    req.call = "merge" =>
        /\ \A i \in 1..Len(SnapRanges) :
              LET r == SnapRanges[i]
                  c == snap.comments[CommentPosition(r.comment_id)]
              IN /\ ~c.resolved /\ c.anchor = Some(r.anchor_text) /\ r.anchor_text # <<>>
                 /\ SubSeq(Text(snap.doc), r.start_index, r.end_index - 1) = r.anchor_text
                 /\ \A j \in 1..(r.start_index - 1) :
                       SubSeq(Text(snap.doc), j, j + Len(r.anchor_text) - 1) = r.anchor_text
                       => \E k \in j..(j + Len(r.anchor_text) - 2) :
                             snap.doc[k].ts # snap.doc[k + 1].ts \/ snap.doc[k].ch = NL
        /\ \A i, j \in 1..Len(SnapRanges) :
              i < j => CommentPosition(SnapRanges[i].comment_id)
                         < CommentPosition(SnapRanges[j].comment_id)

----------------------------------------------------------------------------
(* Attribution search and resolver search                                  *)

\* C23: the attribution search is the resolver's substring search: on the
\* document the attribution annotator searched, its first match is at the
\* range start the resolver returns for the same text, and one finds a match
\* exactly when the other does.
AttributionSearchIsResolverSearch ==
    (req.call = "merge" /\ storeReply = "ok" /\ pc = "returned" /\ commentReplies # <<>>)
    => LET search_text == SearchText(req.formatted_content)
           found == FindTextRange(BodyContent(doc, bodyKind), search_text)
       IN /\ (AttributionMatches # <<>>) <=> (found # None)
          /\ AttributionMatches # <<>> => AttributionMatches[1].doc_start = found[1].start

\* where the two searches differ: the attribution search alone finds the text
\* (another case, or across text runs), the resolver's alone finds it (in a
\* table cell), or both find it at different offsets
SearchesDisagree ==
    /\ req.call = "merge" /\ storeReply = "ok" /\ pc = "returned" /\ commentReplies # <<>>
    /\ LET search_text == SearchText(req.formatted_content)
           found == FindTextRange(BodyContent(doc, bodyKind), search_text)
       IN /\ AttributionMatches # <<>> /\ found # None
          /\ AttributionMatches[1].doc_start < found[1].start
          /\ doc[AttributionMatches[1].doc_start].ch # search_text[1]

----------------------------------------------------------------------------
(* The occurrence scan of _find_text_in_document in one paragraph, one     *)
(* iteration of its `while True` at a time                                 *)

\* matches kept in the state; a scan that ends finds fewer
MaxMatches == 5
\* paragraph texts
ScanTexts == StringsUpTo({"a", "B"}, MaxBuf)
\* contents handed to merge_content: nothing, white space, words
ScanContents == {<<>>, <<" ">>, <<NL>>, <<"a">>, <<"b">>, <<"a", "b">>}

InitS ==
    /\ bodyKind = "content" /\ doc = <<>> /\ comments = <<>> /\ tab = NoTab
    /\ pc = "scan"
    /\ req \in {[call |-> "scan", full_text |-> t \o <<NL>>,
                 search_text |-> SearchText(FormatContentForInsertion(c)), pos |-> 0] :
                   t \in ScanTexts, c \in ScanContents}
    /\ ip = NoInsertionPoint /\ plan = <<>> /\ batches = <<>>
    /\ storeReply = "none"
    /\ result = <<>>
    /\ snap = [doc |-> doc, comments |-> comments]
    /\ commentReplies = <<>>
    /\ otherEdits = <<>> /\ calls = <<>>

\* idx = lower_text.find(lower_search, pos)
ScanIdx == FindFrom(Lower(req.full_text), Lower(req.search_text), req.pos)

\* idx != -1: matches.append(...); pos = idx + len(search_text)
ScanFound ==
    /\ pc = "scan"
    /\ ScanIdx # -1
    /\ result' = IF Len(result) < MaxMatches
                 THEN Append(result, [doc_start |-> 1 + ScanIdx,
                                      length |-> Len(req.search_text)])
                 ELSE result
    /\ req' = [req EXCEPT !.pos = ScanIdx + Len(req.search_text)]
    /\ UNCHANGED <<store, pc, ip, plan, batches, storeReply, snap, commentReplies, otherEdits, calls>>

\* idx == -1: break
ScanEnds ==
    /\ pc = "scan"
    /\ ScanIdx = -1
    /\ pc' = "scanned"
    /\ UNCHANGED <<store, req, ip, plan, batches, storeReply, result, snap, commentReplies, otherEdits, calls>>

NextS == ScanFound \/ ScanEnds

\* the loop runs on: an iteration that can be taken is taken
SpecS == InitS /\ [][NextS]_vars /\ WF_vars(NextS)

\* C24: for every paragraph and every content, the search text being the
\* stripped prefix of the padded content (empty for an empty or white-space
\* content), every iteration of the occurrence scan that finds a match moves
\* the position forward, so that the scan ends with a finite list of matches.
ScanAdvances == [][ScanFound => req'.pos > req.pos]_vars

\* the occurrence scan ends
ScanTerminates == <>(pc = "scanned")

\* the scans of a non-empty search text end, each match found once
ScanOfTextTerminates == (req.search_text # <<>>) ~> (pc = "scanned")

----------------------------------------------------------------------------
(* calculate_insertion_point, one read of the stores at a time, with the   *)
(* edits of another actor between its reads                                *)

PlannerStrategies == {"safe", "simple"}

\* analysis = self.editor.analyze_document(doc_id, include_comments=True):
\* the first read of the document
PlannerAnalyze(section_name, strategy) ==
    /\ pc = "idle"
    /\ req' = [call |-> "plan", section_name |-> section_name, strategy |-> strategy]
    /\ snap' = [doc |-> doc, comments |-> comments]
    /\ result' = [analysis |-> AnalyzeSections(doc, bodyKind), reason |-> ""]
    /\ pc' = "resolve"
    /\ UNCHANGED <<store, ip, plan, batches, storeReply, commentReplies, otherEdits, calls>>

\* commented_ranges = self.find_commented_ranges(doc_id), the second read of
\* the document, and the section branch of the planner
PlannerResolve ==
    /\ pc = "resolve"
    /\ LET commented_ranges == FindCommentedRanges(doc, bodyKind, comments)
           section_bounds == IF Truthy(req.section_name)
                             THEN FindSectionBoundaries(result.analysis, req.section_name[1])
                             ELSE None
       IN IF Truthy(req.section_name) /\ section_bounds # None /\ req.strategy = "safe"
          THEN LET insertion_idx == section_bounds[1].end - 1
                   affected == AffectedBy(commented_ranges, insertion_idx)
               IN /\ ip' = InsertionPoint(insertion_idx, req.section_name, affected = <<>>,
                                          affected, "after", "End of section")
                  /\ pc' = "planned"
                  /\ UNCHANGED result
          ELSE /\ result' = [result EXCEPT !.reason =
                               IF Truthy(req.section_name) /\ section_bounds = None
                               THEN "Section not found, inserting at document end"
                               ELSE "Inserting at document end"]
               /\ pc' = "doc_end"
               /\ UNCHANGED ip
    /\ UNCHANGED <<store, req, plan, batches, storeReply, snap, commentReplies, otherEdits, calls>>

\* doc = self.editor.get_document(doc_id); doc_end = ...: the third read of
\* the document
PlannerDocumentEnd ==
    /\ pc = "doc_end"
    /\ ip' = DocumentEndPoint(doc, bodyKind, result.reason)
    /\ pc' = "planned"
    /\ UNCHANGED <<store, req, plan, batches, storeReply, result, snap, commentReplies,
                   otherEdits, calls>>

\* another actor edits the document between two reads of the planner
OtherActorEditsBetweenReads(r) ==
    /\ pc \in {"resolve", "doc_end"}
    /\ otherEdits = <<>>
    /\ ValidRequest(doc, r)
    /\ doc' = ApplyRequest(doc, r)
    /\ otherEdits' = <<r>>
    /\ UNCHANGED <<bodyKind, tab, comments, pc, req, ip, plan, batches, storeReply, result,
                   snap, commentReplies, calls>>

NextP ==
    \/ \E section_name \in SectionHints, strategy \in PlannerStrategies :
          PlannerAnalyze(section_name, strategy)
    \/ PlannerResolve
    \/ PlannerDocumentEnd
    \/ \E r \in OtherEdits : OtherActorEditsBetweenReads(r)

SpecP == Init /\ [][NextP]_vars

\* what the planner returns from one atomic read of the document d
AtomicPlan(d) ==
    CalculateInsertionPoint(d, bodyKind, comments, req.section_name, req.strategy)

\* C25: whatever edits another actor makes between the planner's reads, the
\* InsertionPoint returned is the one a single atomic read would have
\* produced, of the document as it was before or after those edits.
SingleSnapshotPlanning ==
    pc = "planned" => ip \in {AtomicPlan(snap.doc), AtomicPlan(doc)}

\* with no edit between its reads the planner returns what one read gives
PlannerAtomicUnderExclusiveAccess ==
    (pc = "planned" /\ otherEdits = <<>>) => ip = AtomicPlan(doc)

----------------------------------------------------------------------------
(* Frame of a Case A merge                                                 *)

\* the section the hint of the merge in progress names, in the document d
SectionOf(d) == FindSectionBoundaries(AnalyzeSections(d, bodyKind), HintOf(req)[1])

\* where the character at offset i of the snapshot is once the batch of the
\* merge is applied
AfterInsert(i) == IF i < ip.index THEN i ELSE i + (Len(doc) - Len(snap.doc))

\* C26: a Case A merge into a section that was found changes the paragraph
\* style of no character the document already had, so the section's heading
\* is still heading-styled with the same text and planning again with the
\* same hint finds the section at the same start.
CaseAKeepsParagraphStyles ==
    (Planned /\ storeReply = "ok" /\ otherEdits = <<>>
       /\ Truthy(HintOf(req)) /\ SectionOf(snap.doc) # None)
    => /\ \A i \in 1..Len(snap.doc) :
             /\ doc[AfterInsert(i)].ch = snap.doc[i].ch
             /\ doc[AfterInsert(i)].ps = snap.doc[i].ps
       /\ SectionOf(doc) # None
       /\ SectionOf(doc)[1].start = SectionOf(snap.doc)[1].start

\* the characters the document already had are where they were, around the
\* inserted text, whatever became of their paragraph style
CaseAKeepsText ==
    (Planned /\ storeReply = "ok" /\ otherEdits = <<>>)
    => \A i \in 1..Len(snap.doc) : doc[AfterInsert(i)].ch = snap.doc[i].ch

----------------------------------------------------------------------------
(* merge_content on a document URL that names a tab                        *)

\* the body of the tab the URL names
TabBodies == {TwoRunPara, HeadingPara \o TwoRunPara}
\* the body of the first tab
FirstTabBodies == {HeadingPara, HeadingPara \o HeadingPara \o TwoRunPara \o TwoRunPara}

InitT ==
    /\ bodyKind = "content"
    /\ doc \in FirstTabBodies
    /\ tab \in {[id |-> Some("t.1"), body |-> b] : b \in TabBodies}
    /\ comments \in {<<>>, <<UserComment(1, Some(<<"b">>))>>}
    /\ pc = "idle"
    /\ InitCall

SpecT == InitT /\ [][Next]_vars

\* C27: when the document URL names a tab, the offsets of the merge are
\* computed from that tab's body and every request of the submitted batch is
\* addressed to that tab.
TabConsistency ==
    (Planned /\ pc = "batch" /\ otherEdits = <<>> /\ tab.id # None)
    => /\ ip = CalculateInsertionPoint(tab.body, bodyKind, comments, HintOf(req),
                  IF req.options.preserve_comments THEN "safe" ELSE "simple")
       /\ \A i \in 1..Len(plan) : AddressedTab(plan[i]) = tab.id

\* the insertText requests, at least, are addressed to the tab of the URL
InsertsAddressedToTab ==
    (Planned /\ pc = "batch" /\ tab.id # None)
    => \A i \in 1..Len(plan) : plan[i].op = "insertText" => AddressedTab(plan[i]) = tab.id

\* a merge on a URL that names a tab has put its text in that tab and changed
\* the paragraph style of the first tab
MergeTouchesBothTabs ==
    /\ req.call = "merge" /\ storeReply = "ok" /\ otherEdits = <<>> /\ tab.id # None
    /\ Len(tab.body) > Len(snap.doc) - 6
    /\ Len(doc) = Len(snap.doc) /\ doc # snap.doc

----------------------------------------------------------------------------
(* Successive calls of merge_content on one document, no other actor       *)
(* editing it                                                              *)

\* calls made one after the other
MaxMerges == 2
SequenceDocs == {HeadingPara, HeadingPara \o TwoRunPara, HeadingPara \o HeadingPara, TableDoc}
SequenceComments == {<<>>, <<UserComment(1, Some(<<"b">>))>>, <<UserComment(1, Some(<<"b", NL>>))>>}
SequenceContents == {<<"a">>, <<"a", NL, "b">>}
SequenceHints == {None, Some(<<"a", "b">>)}
\* the defaults without the source annotation, the same planning with strategy
\* 'simple', and the defaults with the inline attribution
SequenceOptions ==
    {MergeOptions(TRUE, "preserve", FALSE, FALSE, Some(<<"b">>)),
     MergeOptions(FALSE, "preserve", FALSE, FALSE, Some(<<"b">>)),
     MergeOptions(TRUE, "preserve", FALSE, TRUE, Some(<<"b">>))}

InitQ ==
    /\ bodyKind = "content" /\ tab = NoTab
    /\ doc \in SequenceDocs
    /\ comments \in SequenceComments
    /\ pc = "idle"
    /\ InitCall

\* merge_content has returned success; its caller goes on to the next call
NextCall ==
    /\ pc = "returned" /\ result.success
    /\ Len(calls) + 1 < MaxMerges
    /\ calls' = Append(calls, [req |-> req, ip |-> ip, snap |-> snap])
    /\ pc' = "idle"
    /\ req' = NoReq /\ ip' = NoInsertionPoint /\ plan' = <<>> /\ batches' = <<>>
    /\ storeReply' = "none" /\ result' = NoResult
    /\ snap' = [doc |-> doc, comments |-> comments]
    /\ commentReplies' = <<>> /\ otherEdits' = <<>>
    /\ UNCHANGED store

NextQ ==
    \/ \E content \in SequenceContents, section \in SequenceHints, options \in SequenceOptions :
          MergeContent(content, section, options)
    \/ BatchApplied
    \/ NextCall

SpecQ == InitQ /\ [][NextQ]_vars

RECURSIVE IsSubsequence(_, _)
\* the characters of s occur in t in their order
IsSubsequence(s, t) ==
    IF s = <<>> THEN TRUE
    ELSE IF t = <<>> THEN FALSE
    ELSE IF Head(s) = Head(t) THEN IsSubsequence(Tail(s), Tail(t))
    ELSE IsSubsequence(s, Tail(t))

\* the document as it was before the first call
OriginalDoc == IF calls = <<>> THEN snap.doc ELSE calls[1].snap.doc

\* C28: no batch of merge_content holds a deleteContentRange; after any
\* sequence of merges the text the document had at first is a subsequence of
\* its text, and the text of every anchor the resolver found before a merge is
\* still in the document after it, unless the insertion offset fell strictly
\* inside its range.
MergeNeverDeletes ==
    /\ \A i \in 1..Len(batches) : \A j \in 1..Len(batches[i]) :
          batches[i][j].op # "deleteContentRange"
    /\ IsSubsequence(Text(OriginalDoc), Text(doc))
    /\ (req.call = "merge" /\ storeReply = "ok") =>
          \A i \in 1..Len(SnapRanges) :
             ~(SnapRanges[i].start_index < ip.index /\ ip.index < SnapRanges[i].end_index)
             => Contains(Text(doc), SnapRanges[i].anchor_text)

\* a second merge applied to a document whose annotation the resolver found
SecondMergeAppliedWitness ==
    /\ Len(calls) = 1 /\ req.call = "merge" /\ storeReply = "ok"
    /\ SnapRanges # <<>>
    /\ Len(doc) > Len(OriginalDoc) + 2 * Len(req.formatted_content) - 3

----------------------------------------------------------------------------
(* Order of successive merges                                              *)

\* a second merge with the hint of the first has been applied
SecondMergeApplied ==
    /\ Len(calls) = 1 /\ req.call = "merge" /\ storeReply = "ok"
    /\ HintOf(req) = HintOf(calls[1].req)

\* length of what the first merge inserted, and of what the second did
FirstInsertedLen == Len(snap.doc) - Len(calls[1].snap.doc)
SecondInsertedLen == Len(doc) - Len(snap.doc)

\* planned with the same strategy, the content of the later merge lies after
\* the content of the earlier one
LaterContentAfterEarlier ==
    (SecondMergeApplied
       /\ req.options.preserve_comments = calls[1].req.options.preserve_comments)
    => ip.index >= calls[1].ip.index + FirstInsertedLen

\* C29: of two successful merges with the same hint, each planned on the
\* current document, the content of the later lies after the content of the
\* earlier and, when the first found its section, still inside that section.
MergesInCallOrder ==
    SecondMergeApplied =>
        /\ ip.index >= calls[1].ip.index + FirstInsertedLen
        /\ (Truthy(HintOf(req))
              /\ HeadingsMatching(BodyContent(calls[1].snap.doc, bodyKind), HintOf(req)[1]) # {})
           => LET before == SectionSpan(BodyContent(calls[1].snap.doc, bodyKind), HintOf(req)[1])
                  elems == BodyContent(doc, bodyKind)
              IN /\ HeadingsMatching(elems, HintOf(req)[1]) # {}
                 /\ SectionSpan(elems, HintOf(req)[1]).start = before.start
                 /\ before.start <= calls[1].ip.index
                 /\ ip.index + SecondInsertedLen <= SectionSpan(elems, HintOf(req)[1]).end

----------------------------------------------------------------------------
(* Well-formed Case B plans                                                *)

\* the offsets of request r lie in the buffer d, its end included
OffsetsInBounds(d, r) ==
    IF r.op = "insertText" THEN 1 <= r.index /\ r.index <= Len(d) + 1
    ELSE 1 <= r.startIndex /\ r.startIndex <= Len(d) + 1
         /\ 1 <= r.endIndex /\ r.endIndex <= Len(d) + 1

RECURSIVE PlanInBounds(_, _)
\* every request of rs has its offsets in the buffer as the requests before
\* it leave it
PlanInBounds(d, rs) ==
    IF rs = <<>> THEN TRUE
    ELSE /\ OffsetsInBounds(d, Head(rs))
         /\ PlanInBounds(IF Head(rs).op = "insertText"
                         THEN ApplyInsertText(d, Head(rs).index, Head(rs).text)
                         ELSE ApplyDeleteRange(d, Head(rs).startIndex, Head(rs).endIndex),
                         Tail(rs))

\* C30: for every range with start <= end of the document and every new text,
\* the Case B plan is one insertText followed by at most two deletes, each
\* with startIndex < endIndex, and every offset of every request lies in the
\* document as the requests before it leave it.
CaseBPlanWellFormed ==
    req.call = "insert_content" =>
        LET requests == batches[1]
        IN /\ Len(requests) \in 1..3
           /\ requests[1].op = "insertText"
           /\ \A j \in 2..Len(requests) :
                 /\ requests[j].op = "deleteContentRange"
                 /\ requests[j].startIndex < requests[j].endIndex
           /\ PlanInBounds(snap.doc, requests)

\* the plan for an empty range, an insert alone, has been applied
CaseBEmptyRangeWitness ==
    /\ req.call = "insert_content" /\ pc = "applied"
    /\ req.commented_range.start_index = req.commented_range.end_index
    /\ Len(batches[1]) = 1

============================================================================
